---- MODULE Spec2Model ----
(***************************************************************************)
(* Model of mini_lib/utils.py: the bounded execution of a code fragment    *)
(* (run / arun / run_with_timeout).                                        *)
(*                                                                         *)
(* A call of arun runs on an event-loop thread; the fragment runs on the   *)
(* single worker thread of the ThreadPoolExecutor the call creates.        *)
(* Time is a discrete clock.  Code that runs on the event-loop thread      *)
(* without blocking takes no time: the clock advances only when no step    *)
(* of an event loop is enabled and some call is in progress (behaviours    *)
(* are invariant under a shift of the clock).  Worker steps take any       *)
(* amount of time.                                                         *)
(* asyncio.wait_for is modelled as CPython 3.11 implements it: at wake-up  *)
(* a finished future wins over an expired timer.                           *)
(***************************************************************************)
EXTENDS Integers, Sequences, FiniteSets, TLC

\* ---------------------------------------------------------------- bounds
MaxTime == 2
MaxTimeout == 1
MaxInput == 2
MaxLines == 3
MaxPad == 1
MaxBody == 3

Calls == {1, 2}
\* The calls that may be made through run(); the others are arun() tasks.
\* A run() differs from an arun() by its log record and its private loop.
SyncCallers == {1}
\* The inputs start at the input of the module's own test.
TestInput == 2
Inputs == TestInput..MaxInput
Timeouts == 0..MaxTimeout

\* ------------------------------------------------------------- fragments
\* A fragment is what exec() makes of its text: whether it compiles, the
\* names its top level binds, and what its solve does when called.
FragInc == [text |-> "def solve(x): return x + 1", compiles |-> TRUE,
            defs |-> {"solve"}, solve |-> "inc", exc |-> "-"]
FragRaiseValue == [text |-> "def solve(x): raise ValueError()", compiles |-> TRUE,
            defs |-> {"solve"}, solve |-> "raise", exc |-> "ValueError"]
FragRaiseTimeout == [text |-> "def solve(x): raise asyncio.TimeoutError()", compiles |-> TRUE,
            defs |-> {"solve"}, solve |-> "raise", exc |-> "asyncio.TimeoutError"]
FragLoop == [text |-> "def solve(x): while True: pass", compiles |-> TRUE,
            defs |-> {"solve"}, solve |-> "loop", exc |-> "-"]
FragNoSolve == [text |-> "x = 5", compiles |-> TRUE,
            defs |-> {"x"}, solve |-> "-", exc |-> "-"]
FragSyntax == [text |-> "def solve(x)", compiles |-> FALSE,
            defs |-> {}, solve |-> "-", exc |-> "SyntaxError"]

Fragments == {FragInc, FragRaiseValue, FragRaiseTimeout, FragLoop, FragNoSolve, FragSyntax}

NoFragment == [text |-> "", compiles |-> FALSE, defs |-> {}, solve |-> "-", exc |-> "-"]

\* ------------------------------------------------------ values, outcomes
None == [kind |-> "none"]
Value(v) == [kind |-> "value", val |-> v]
Raised(e) == [kind |-> "raise", exc |-> e]

TimeoutException == "TimeoutException"
AsyncioTimeoutError == "asyncio.TimeoutError"

\* What calling the function `f` of a namespace on `x` produces; "loop" never
\* returns and has no outcome.
Apply(f, x) ==
    CASE f.solve = "inc" -> Value(x + 1)
      [] f.solve = "raise" -> Raised(f.exc)
      [] f.solve = "identity" -> Value(x)
      [] OTHER -> None

\* solve(input) called directly, outside run/arun.
SolveDirect(frag, x) == Apply([solve |-> frag.solve, exc |-> frag.exc], x)

VARIABLES
    now,        \* the wall clock (time.perf_counter)
    pc,         \* position of each call of run/arun
    mode,       \* "run" (own event loop) or "arun" (the shared event loop)
    code, input, timeout,   \* the arguments of each call
    t0,         \* arun's recorded start time
    executor,   \* id of the ThreadPoolExecutor the call created (0: none)
    nExecutors, \* executors created so far
    ns,         \* id of the dict `vars` the worker created (0: none)
    heap,       \* the dicts created so far: id -> set of bindings
    worker,     \* state of the work item on the executor's thread
    future,     \* outcome the worker stored in its future
    finishedAt, \* clock value when the worker finished (-1: not finished)
    pending,    \* what wait_for handed to arun: None, value, raise, or expiry
    delivered,  \* outcomes the caller has received
    returnedAt, \* clock value when control returned to the caller (-1: not yet)
    submitted,  \* work items submitted for the call
    loads,      \* executions of exec(code, vars) for the call
    invokes,    \* invocations of fn(input) for the call
    log         \* records the call passed to the logging module

\* The arguments and the return value of a call of check_solution and of a
\* call of maybe_remove_backticks; strings are sequences of characters.
VARIABLES
    expected, actual,   \* check_solution's arguments
    result,             \* check_solution's return value (None: not called)
    parts,              \* how the argument of maybe_remove_backticks was built
    solution,           \* maybe_remove_backticks' argument
    stripped            \* maybe_remove_backticks' return value (None: not called)

textVars == <<expected, actual, result, parts, solution, stripped>>

runnerVars == <<now, pc, mode, code, input, timeout, t0, executor, nExecutors, ns, heap,
                worker, future, finishedAt, pending, delivered, returnedAt,
                submitted, loads, invokes, log>>

vars == <<runnerVars, textVars>>

callArgs == <<mode, code, input, timeout>>
workerVars == <<ns, heap, worker, future, finishedAt, loads, invokes>>

Expired == [kind |-> "expired"]

Max(a, b) == IF a >= b THEN a ELSE b

\* The instant wait_for's timer is due.
Deadline(c) == t0[c] + Max(timeout[c], 0)

\* The event loop a call runs on: run() creates its own with asyncio.run,
\* concurrent arun() calls share the running loop.
LoopOf(c) == IF mode[c] = "run" THEN c ELSE 0

Started(c) == pc[c] # "idle"

\* The event-loop thread is inside c's code and cannot run another task:
\* between run_in_executor and the await, and inside the with-block's exit.
HoldsLoop(c) == pc[c] \in {"dispatched", "exiting"}

LoopFree(c) == \A d \in Calls \ {c} :
                  ~(Started(d) /\ LoopOf(d) = LoopOf(c) /\ HoldsLoop(d))

Logged(c, rec) == \E i \in 1..Len(log[c]) : log[c][i] = rec
Count(c, m) == Cardinality({i \in 1..Len(log[c]) : log[c][i].msg = m})

Info(m, a) == [level |-> "info", msg |-> m, arg |-> a]
Error(m, a) == [level |-> "error", msg |-> m, arg |-> a]

\* No fragment has been checked or unfenced.
NoParts == [pad1 |-> <<>>, open |-> FALSE, gap1 |-> <<>>, body |-> <<>>,
            gap2 |-> <<>>, close |-> FALSE, pad2 |-> <<>>]

TextIdle ==
    /\ expected = <<>> /\ actual = <<>> /\ result = None
    /\ parts = NoParts /\ solution = <<>> /\ stripped = None

RunnerInit ==
    /\ now = 0
    /\ pc = [c \in Calls |-> "idle"]
    /\ mode = [c \in Calls |-> "arun"]
    /\ code = [c \in Calls |-> NoFragment]
    /\ input = [c \in Calls |-> 0]
    /\ timeout = [c \in Calls |-> 0]
    /\ t0 = [c \in Calls |-> 0]
    /\ executor = [c \in Calls |-> 0]
    /\ nExecutors = 0
    /\ ns = [c \in Calls |-> 0]
    /\ heap = <<>>
    /\ worker = [c \in Calls |-> "none"]
    /\ future = [c \in Calls |-> None]
    /\ finishedAt = [c \in Calls |-> -1]
    /\ pending = [c \in Calls |-> None]
    /\ delivered = [c \in Calls |-> <<>>]
    /\ returnedAt = [c \in Calls |-> -1]
    /\ submitted = [c \in Calls |-> 0]
    /\ loads = [c \in Calls |-> 0]
    /\ invokes = [c \in Calls |-> 0]
    /\ log = [c \in Calls |-> <<>>]

Init == RunnerInit /\ TextIdle


\* ------------------------------------------------------------ the worker
\* A bug: one dict shared by every call (a module-level vars).
NewDictShared(h) == 1

\* vars = {}: the id of the dict the worker creates, a fresh one per call.
NewDict(h) == Len(h) + 1

Fn(kind, e) == [solve |-> kind, exc |-> e]
Identity == Fn("identity", "-")

\* The bindings exec(code, vars) leaves in vars for a fragment that compiles.
Bindings(frag, c) ==
    {[name |-> n, by |-> c,
      val |-> IF n = "solve" THEN Fn(frag.solve, frag.exc) ELSE Fn("not callable", "-")]
        : n \in frag.defs}

\* exec(code, vars): a binding replaces the binding of the same name.
Exec(nsp, frag, c) ==
    {b \in nsp : b.name \notin frag.defs} \cup Bindings(frag, c)

\* A bug: the lookup uses a key no fragment binds, so the default is always taken.
GetWrongKey(nsp, name, default) == default

\* A bug: vars["solve"] without a default, a KeyError when solve is absent.
GetNoDefault(nsp, name, default) ==
    IF \E b \in nsp : b.name = name
    THEN (CHOOSE b \in nsp : b.name = name).val
    ELSE [solve |-> "raise", exc |-> "KeyError"]

\* vars.get(name, default)
Get(nsp, name, default) ==
    IF \E b \in nsp : b.name = name
    THEN (CHOOSE b \in nsp : b.name = name).val
    ELSE default

\* A bug: a work item that raised is put back on the queue and run again.
WorkerAfterRetrying(r) == IF r.kind = "raise" THEN "queued" ELSE "done"

\* The state of the work item once run_with_timeout has returned or raised
\* r: the future is resolved and nothing runs the fragment again.
WorkerAfter(r) == "done"

\* A bug: the except clause logs and does not raise again.
ExecResultSwallowed(frag) == None

\* run_with_timeout, lines 65-69: what exec(code, vars) raises out of the
\* try statement; None when the fragment loads.
ExecResult(frag) == IF frag.compiles THEN None ELSE Raised(frag.exc)

\* The executor's thread takes the work item off the queue, after which it
\* can no longer be cancelled, and runs run_with_timeout, lines 64-69:
\* vars = {}; exec(code, vars), and on an exception the fragment is logged
\* and the exception raised again.
run_with_timeout_exec(c) ==
    /\ worker[c] = "queued"
    /\ LET id == NewDict(heap)
           h == IF id > Len(heap) THEN Append(heap, {}) ELSE heap
       IN /\ ns' = [ns EXCEPT ![c] = id]
          /\ loads' = [loads EXCEPT ![c] = @ + 1]
          /\ IF ExecResult(code[c]) = None
             THEN /\ heap' = [h EXCEPT ![id] = Exec(h[id], code[c], c)]
                  /\ worker' = [worker EXCEPT ![c] = "invoking"]
                  /\ UNCHANGED <<future, finishedAt, log>>
             ELSE /\ heap' = h
                  /\ log' = [log EXCEPT ![c] =
                        Append(@, Error("The generated code is not valid", code[c].text))]
                  /\ future' = [future EXCEPT ![c] = ExecResult(code[c])]
                  /\ finishedAt' = [finishedAt EXCEPT ![c] = now]
                  /\ worker' = [worker EXCEPT ![c] = WorkerAfter(ExecResult(code[c]))]
    /\ UNCHANGED textVars
    /\ UNCHANGED <<now, pc, callArgs, t0, executor, nExecutors, pending, delivered,
                   returnedAt, submitted, invokes>>

\* run_with_timeout, lines 71-72: fn = vars.get("solve", lambda x: x);
\* return fn(input).  A solve that never returns leaves the thread running.
run_with_timeout_call(c) ==
    /\ worker[c] = "invoking"
    /\ invokes' = [invokes EXCEPT ![c] = @ + 1]
    /\ LET fn == Get(heap[ns[c]], "solve", Identity)
           r == Apply(fn, input[c])
       IN IF r = None
          THEN /\ worker' = [worker EXCEPT ![c] = "looping"]
               /\ UNCHANGED <<future, finishedAt>>
          ELSE /\ worker' = [worker EXCEPT ![c] = WorkerAfter(r)]
               /\ future' = [future EXCEPT ![c] = r]
               /\ finishedAt' = [finishedAt EXCEPT ![c] = now]
    /\ UNCHANGED textVars
    /\ UNCHANGED <<now, pc, callArgs, t0, executor, nExecutors, ns, heap, pending,
                   delivered, returnedAt, submitted, loads, log>>

\* The worker thread is executing the fragment.
Busy(c) == worker[c] \in {"invoking", "looping"}

\* -------------------------------------------------------------- run, arun
\* ThreadPoolExecutor(): the id of the executor a call creates.
NewExecutor(n) == n + 1

\* A bug: a timeout <= 0 fails fast, before anything is submitted.
SubmitUnlessExpired(n, tmo) == IF tmo <= 0 THEN n ELSE n + 1

\* loop.run_in_executor(executor, run_with_timeout, ...): the number of work
\* items arun submits before it awaits, whatever the timeout.
Submit(n, tmo) == n + 1

\* arun, lines 75-86: log, record t0, create the executor, submit the work.
ArunBegin(c, m, frag, x, tmo, lg) ==
    /\ pc[c] = "idle"
    /\ \A d \in Calls : d < c => Started(d)
    /\ now + Max(tmo, 0) <= MaxTime
    /\ \A d \in Calls \ {c} :
          ~(Started(d) /\ LoopOf(d) = (IF m = "run" THEN c ELSE 0) /\ HoldsLoop(d))
    /\ mode' = [mode EXCEPT ![c] = m]
    /\ code' = [code EXCEPT ![c] = frag]
    /\ input' = [input EXCEPT ![c] = x]
    /\ timeout' = [timeout EXCEPT ![c] = tmo]
    /\ log' = [log EXCEPT ![c] = Append(lg, Info("Running solution asynchronously...", "-"))]
    /\ t0' = [t0 EXCEPT ![c] = now]
    /\ nExecutors' = NewExecutor(nExecutors)
    /\ executor' = [executor EXCEPT ![c] = NewExecutor(nExecutors)]
    /\ submitted' = [submitted EXCEPT ![c] = Submit(@, tmo)]
    /\ worker' = [worker EXCEPT ![c] = IF Submit(submitted[c], tmo) > submitted[c]
                                       THEN "queued" ELSE @]
    /\ pc' = [pc EXCEPT ![c] = "dispatched"]
    /\ UNCHANGED textVars
    /\ UNCHANGED <<now, ns, heap, future, finishedAt, pending, delivered, returnedAt,
                   loads, invokes>>

arun(c, frag, x, tmo) == ArunBegin(c, "arun", frag, x, tmo, log[c])

\* run, lines 99-100: log, then asyncio.run(arun(...)) on a new event loop.
run(c, frag, x, tmo) ==
    ArunBegin(c, "run", frag, x, tmo,
              Append(log[c], Info("Running solution synchronously...", "-")))

\* Cancelling the future cancels a work item that has not started.
Cancel(w) == IF w = "queued" THEN "cancelled" ELSE w

\* arun, line 87, entering asyncio.wait_for(future, timeout): a timeout <= 0
\* cancels the future and raises asyncio.TimeoutError at once, any other
\* timeout arms the timer and suspends the task.
wait_for_enter(c) ==
    /\ pc[c] = "dispatched"
    /\ IF timeout[c] <= 0
       THEN /\ pending' = [pending EXCEPT ![c] = Expired]
            /\ worker' = [worker EXCEPT ![c] = Cancel(@)]
            /\ pc' = [pc EXCEPT ![c] = "exiting"]
       ELSE /\ pc' = [pc EXCEPT ![c] = "waiting"]
            /\ UNCHANGED <<pending, worker>>
    /\ UNCHANGED textVars
    /\ UNCHANGED <<now, callArgs, t0, executor, nExecutors, ns, heap, future,
                   finishedAt, delivered, returnedAt, submitted, loads, invokes, log>>

\* What wait_for hands to arun when the task wakes up: the future's outcome
\* if the future is done, expiry otherwise.
WaitResult(w, fut) == IF w = "done" THEN fut ELSE Expired

CanResume(c) ==
    /\ pc[c] = "waiting"
    /\ LoopFree(c)
    /\ worker[c] = "done" \/ now >= Deadline(c)

\* arun, line 87, asyncio.wait_for resuming the task.
wait_for_resume(c) ==
    /\ CanResume(c)
    /\ pending' = [pending EXCEPT ![c] = WaitResult(worker[c], future[c])]
    /\ worker' = [worker EXCEPT ![c] = IF @ = "done" THEN @ ELSE Cancel(@)]
    /\ pc' = [pc EXCEPT ![c] = "exiting"]
    /\ UNCHANGED textVars
    /\ UNCHANGED <<now, callArgs, t0, executor, nExecutors, ns, heap, future,
                   finishedAt, delivered, returnedAt, submitted, loads, invokes, log>>

\* arun, lines 88-93: what the caller receives for what wait_for handed over.
Outcome(p) ==
    CASE p.kind = "value" -> Value(p.val)
      [] p.kind = "expired" -> Raised(TimeoutException)
      [] p.kind = "raise" /\ p.exc = AsyncioTimeoutError -> Raised(TimeoutException)
      [] OTHER -> Raised(p.exc)

\* A bug: the elapsed time is logged after the await instead of in finally.
ExitLogNoFinally(p, elapsed) ==
    (IF p.kind = "raise" /\ p.exc # AsyncioTimeoutError
     THEN <<[level |-> "error", msg |-> "Error executing code", arg |-> p.exc]>> ELSE <<>>)
    \o (IF p.kind = "value"
        THEN <<[level |-> "info", msg |-> "Code solution runtime", arg |-> elapsed]>>
        ELSE <<>>)

\* arun, lines 91-96: the records logged on the way out.
ExitLog(p, elapsed) ==
    (IF p.kind = "raise" /\ p.exc # AsyncioTimeoutError
     THEN <<Error("Error executing code", p.exc)>> ELSE <<>>)
    \o <<Info("Code solution runtime", elapsed)>>

\* ThreadPoolExecutor.__exit__ is shutdown(wait=True): it returns when the
\* executor's thread has no work left.
ShutdownReturns(w) == w \in {"done", "cancelled", "none"}

CanExit(c) == pc[c] = "exiting" /\ ShutdownReturns(worker[c])

\* arun, lines 79 and 88-96: leaving the with-block joins the executor's
\* thread; then the result is returned or the exception handled, and the
\* finally clause logs the elapsed time.
executor_exit(c) ==
    /\ CanExit(c)
    /\ delivered' = [delivered EXCEPT ![c] = Append(@, Outcome(pending[c]))]
    /\ log' = [log EXCEPT ![c] = @ \o ExitLog(pending[c], now - t0[c])]
    /\ returnedAt' = [returnedAt EXCEPT ![c] = now]
    /\ pc' = [pc EXCEPT ![c] = "done"]
    /\ UNCHANGED textVars
    /\ UNCHANGED <<now, callArgs, t0, executor, nExecutors, workerVars, pending,
                   submitted>>

\* ------------------------------------------------------------- the clock
LoopStepEnabled == \E c \in Calls : pc[c] = "dispatched" \/ CanResume(c) \/ CanExit(c)

Tick ==
    /\ now < MaxTime
    /\ \E c \in Calls : Started(c) /\ pc[c] # "done"
    /\ ~LoopStepEnabled
    /\ now' = now + 1
    /\ UNCHANGED textVars
    /\ UNCHANGED <<pc, callArgs, t0, executor, nExecutors, workerVars, pending,
                   delivered, returnedAt, submitted, log>>

Next ==
    \/ \E c \in SyncCallers, frag \in Fragments, x \in Inputs, tmo \in Timeouts :
          run(c, frag, x, tmo)
    \/ \E c \in Calls, frag \in Fragments, x \in Inputs, tmo \in Timeouts :
          arun(c, frag, x, tmo)
    \/ \E c \in Calls : wait_for_enter(c)
    \/ \E c \in Calls : wait_for_resume(c)
    \/ \E c \in Calls : executor_exit(c)
    \/ \E c \in Calls : run_with_timeout_exec(c)
    \/ \E c \in Calls : run_with_timeout_call(c)
    \/ Tick

Spec == Init /\ [][Next]_vars

TypeOK ==
    /\ now \in 0..MaxTime
    /\ \A c \in Calls : pc[c] \in {"idle", "dispatched", "waiting", "exiting", "done"}
    /\ \A c \in Calls : worker[c] \in {"none", "queued", "invoking", "looping",
                                        "done", "cancelled"}

\* ---------------------------------------------------------------- strings
\* The characters of the model: a letter, a second letter, the backtick, the
\* letters of "python", and the whitespace characters space and newline.
SP == " "
NL == "\n"
Whitespace == {SP, NL}

Min(a, b) == IF a <= b THEN a ELSE b

RECURSIVE LStrip(_)
LStrip(s) == IF s # <<>> /\ Head(s) \in Whitespace THEN LStrip(Tail(s)) ELSE s

RECURSIVE RStrip(_)
RStrip(s) ==
    IF s # <<>> /\ s[Len(s)] \in Whitespace THEN RStrip(SubSeq(s, 1, Len(s) - 1)) ELSE s

\* str.strip()
Strip(s) == RStrip(LStrip(s))

\* str.split(sep): the pieces between the separators, one piece when there
\* is no separator.
RECURSIVE Split(_, _)
Split(s, sep) ==
    IF \E i \in 1..Len(s) : s[i] = sep
    THEN LET i == CHOOSE k \in 1..Len(s) : s[k] = sep /\ \A j \in 1..(k - 1) : s[j] # sep
         IN <<SubSeq(s, 1, i - 1)>> \o Split(SubSeq(s, i + 1, Len(s)), sep)
    ELSE <<s>>

\* "\n".join(lines)
RECURSIVE Join(_)
Join(ls) ==
    IF Len(ls) = 0 THEN <<>>
    ELSE IF Len(ls) = 1 THEN ls[1]
    ELSE ls[1] \o <<NL>> \o Join(Tail(ls))

StartsWith(s, p) == Len(s) >= Len(p) /\ SubSeq(s, 1, Len(p)) = p
EndsWith(s, p) == Len(s) >= Len(p) /\ SubSeq(s, Len(s) - Len(p) + 1, Len(s)) = p

\* --------------------------------------------------------- check_solution
\* A bug: itertools.zip_longest with an empty fill value instead of zip.
ZipLongest(a, b) ==
    [i \in 1..(IF Len(a) >= Len(b) THEN Len(a) ELSE Len(b)) |->
        <<IF i <= Len(a) THEN a[i] ELSE <<>>, IF i <= Len(b) THEN b[i] ELSE <<>> >>]

\* zip(a, b): the pairs up to the shorter of the two.
Zip(a, b) == [i \in 1..Min(Len(a), Len(b)) |-> <<a[i], b[i]>>]

\* A Python bool as the int it is: True == 1 and False == 0.
PyBool(b) == IF b THEN 1 ELSE 0

\* check_solution, lines 50-57: the loop over the pairs, from pair i on,
\* with the matches counted and the offending cases collected so far.
RECURSIVE CheckLoop(_, _, _, _)
CheckLoop(pairs, i, matches, offending_cases) ==
    IF i > Len(pairs) THEN [matches |-> matches, offending_cases |-> offending_cases]
    ELSE LET expected_line == Strip(pairs[i][1])
             actual_line == Strip(pairs[i][2])
         IN IF expected_line = actual_line
            THEN CheckLoop(pairs, i + 1, matches + 1, offending_cases)
            ELSE CheckLoop(pairs, i + 1, matches,
                           Append(offending_cases, <<expected_line, actual_line>>))

\* check_solution, lines 42-58.
check_solution(e, a) ==
    LET expected_lines == Split(Strip(e), NL)
        actual_lines == Split(Strip(a), NL)
        loop == CheckLoop(Zip(expected_lines, actual_lines), 1, 0, <<>>)
    IN [matches |-> PyBool(loop.matches = Len(expected_lines)),
        total |-> Len(expected_lines),
        offending_cases |-> loop.offending_cases]

\* The lines an output is made of, and the outputs of at most MaxLines lines.
Lines == {<<>>, <<"a">>, <<"b">>, <<SP, "a", SP>>}
Texts == {Join(ls) : ls \in UNION {[1..n -> Lines] : n \in 1..MaxLines}}

CheckInit ==
    /\ RunnerInit
    /\ expected \in Texts /\ actual \in Texts /\ result = None
    /\ parts = NoParts /\ solution = <<>> /\ stripped = None

call_check_solution ==
    /\ result = None
    /\ result' = check_solution(expected, actual)
    /\ UNCHANGED <<runnerVars, expected, actual, parts, solution, stripped>>

CheckNext == call_check_solution

CheckSpec == CheckInit /\ [][CheckNext]_vars

\* ------------------------------------------------- maybe_remove_backticks
\* The backtick character, written out.
BT == "backtick"
OpenFence == <<BT, BT, BT, "p", "y", "t", "h", "o", "n">>
CloseFence == <<BT, BT, BT>>

\* re.sub of line 37: an opening fence at the start of the string goes, with
\* the whitespace after it.
SubOpenFence(s) ==
    IF StartsWith(s, OpenFence) THEN LStrip(SubSeq(s, Len(OpenFence) + 1, Len(s))) ELSE s

\* re.sub of line 38: a closing fence at the end of the string goes, with
\* the whitespace before it; $ matches at the end of the string and before
\* a newline that ends it.
SubCloseFence(s) ==
    IF EndsWith(s, CloseFence)
    THEN RStrip(SubSeq(s, 1, Len(s) - Len(CloseFence)))
    ELSE IF EndsWith(s, CloseFence \o <<NL>>)
         THEN RStrip(SubSeq(s, 1, Len(s) - Len(CloseFence) - 1)) \o <<NL>>
         ELSE s

\* A bug: the fences are removed without stripping the solution first.
maybe_remove_backticks_no_strip(s) == SubCloseFence(SubOpenFence(s))

\* maybe_remove_backticks, lines 34-39.
maybe_remove_backticks(s) == SubCloseFence(SubOpenFence(Strip(s)))

\* Whitespace of at most MaxPad characters.
Pads == UNION {[1..n -> Whitespace] : n \in 0..MaxPad}

\* Code of at most MaxBody characters: it neither begins nor ends with
\* whitespace.
CodeChars == {"a", BT, NL}
Bodies == {b \in UNION {[1..n -> CodeChars] : n \in 0..MaxBody} :
              b = <<>> \/ (b[1] \notin Whitespace /\ b[Len(b)] \notin Whitespace)}

\* The text built from its parts: padding, an opening fence and the
\* whitespace after it, the code, the whitespace before a closing fence and
\* the fence, padding.
Assemble(p) ==
    p.pad1 \o (IF p.open THEN OpenFence \o p.gap1 ELSE <<>>) \o p.body
           \o (IF p.close THEN p.gap2 \o CloseFence ELSE <<>>) \o p.pad2

\* A text has the fences its parts say: without an opening fence the code
\* does not begin with one, without a closing fence it does not end with one.
WellFormed(p) ==
    /\ ~p.open => (p.gap1 = <<>> /\ ~StartsWith(p.body, OpenFence))
    /\ ~p.close => (p.gap2 = <<>> /\ ~EndsWith(p.body, CloseFence))

FenceInit ==
    /\ RunnerInit
    /\ expected = <<>> /\ actual = <<>> /\ result = None
    /\ parts \in {p \in [pad1 : Pads, open : BOOLEAN, gap1 : Pads, body : Bodies,
                         gap2 : Pads, close : BOOLEAN, pad2 : Pads] : WellFormed(p)}
    /\ solution = Assemble(parts)
    /\ stripped = None

call_maybe_remove_backticks ==
    /\ stripped = None
    /\ stripped' = Value(maybe_remove_backticks(solution))
    /\ UNCHANGED <<runnerVars, expected, actual, result, parts, solution>>

FenceNext == call_maybe_remove_backticks

FenceSpec == FenceInit /\ [][FenceNext]_vars

\* ================================================================ claims
Done(c) == pc[c] = "done"

\* The worker finished, and did so before the call's deadline.
FinishedBeforeDeadline(c) == finishedAt[c] >= 0 /\ finishedAt[c] < Deadline(c)

StartMsg == "Running solution asynchronously..."
RuntimeMsg == "Code solution runtime"
InvalidMsg == "The generated code is not valid"

\* C1: once the deadline has expired the timeout is delivered to the caller
\* without any step that waits for the worker: a call that holds an expiry
\* can leave the executor's with-block whatever its worker is doing, and no
\* call is still in progress after its deadline.
C1_NoWaitForWorkerAfterExpiry ==
    \A c \in Calls :
        /\ (pc[c] = "exiting" /\ pending[c] = Expired) => ShutdownReturns(worker[c])
        /\ (Started(c) /\ ~Done(c)) => now <= Deadline(c)

\* C2: every call yields exactly one terminal outcome: never more than one,
\* and a call whose deadline has passed has received its outcome.
C2_ExactlyOneOutcome ==
    \A c \in Calls :
        /\ Len(delivered[c]) <= 1
        /\ (Started(c) /\ now > Deadline(c)) => Len(delivered[c]) = 1

\* C3: a fragment that raised before the deadline surfaces as an evaluation
\* error whose cause is the exception raised, never as the timeout signal.
C3_RaiseSurfacesAsEvaluationError ==
    \A c \in Calls :
        (Done(c) /\ future[c].kind = "raise" /\ FinishedBeforeDeadline(c))
            => /\ delivered[c] = <<Raised(future[c].exc)>>
               /\ delivered[c][1].exc # TimeoutException

\* C4: for a fragment that defines solve, when the worker finishes before
\* the deadline, run and arun return exactly the value solve(input) produces
\* when called directly.
C4_ReturnsValueOfSolve ==
    \A c \in Calls :
        (/\ Done(c)
         /\ "solve" \in code[c].defs
         /\ SolveDirect(code[c], input[c]).kind = "value"
         /\ FinishedBeforeDeadline(c))
            => delivered[c] = <<SolveDirect(code[c], input[c])>>

\* C4 witness: solve(x) = x + 1 with input 2 has returned 3 through run and
\* through arun.
C4_Witness ==
    \E c, d \in Calls :
        /\ mode[c] = "run" /\ mode[d] = "arun"
        /\ \A e \in {c, d} : /\ Done(e) /\ code[e] = FragInc /\ input[e] = 2
                             /\ FinishedBeforeDeadline(e)
                             /\ delivered[e] = <<Value(3)>>

\* C5: with timeout > 0 the timeout signal is delivered only at or after
\* start + timeout, and never to a call whose worker finished before the
\* deadline.
C5_TimeoutOnlyAfterDeadline ==
    \A c \in Calls :
        (Done(c) /\ timeout[c] > 0 /\ delivered[c] = <<Raised(TimeoutException)>>)
            => /\ returnedAt[c] >= Deadline(c)
               /\ ~FinishedBeforeDeadline(c)

\* The fragment of c loads without error and binds no solve.
LoadsWithoutSolve(c) == Started(c) /\ code[c].compiles /\ "solve" \notin code[c].defs

\* C6 as stated: a fragment that loads and defines no solve always returns
\* Success with the input unchanged.
C6_IdentityAlways ==
    \A c \in Calls :
        (Done(c) /\ LoadsWithoutSolve(c)) => delivered[c] = <<Value(input[c])>>

\* C6 amended: a fragment that loads and defines no solve never yields an
\* evaluation error: the worker's result is the input unchanged, and the
\* call returns that input or, only when wait_for expired at or after the
\* deadline, the timeout signal.
C6_IdentityOrTimeout ==
    \A c \in Calls :
        LoadsWithoutSolve(c) =>
            /\ worker[c] = "done" => future[c] = Value(input[c])
            /\ Done(c) =>
                  \/ delivered[c] = <<Value(input[c])>>
                  \/ /\ delivered[c] = <<Raised(TimeoutException)>>
                     /\ pending[c] = Expired
                     /\ returnedAt[c] >= Deadline(c)
            /\ (Done(c) /\ pending[c] # Expired) => delivered[c] = <<Value(input[c])>>

C6_Witness ==
    \E c \in Calls : /\ Done(c) /\ code[c] = FragNoSolve /\ input[c] = 2
                     /\ invokes[c] = 1 /\ delivered[c] = <<Value(2)>>

\* exec has run for c and the fragment does not compile.
LoadFailed(c) == loads[c] > 0 /\ ~code[c].compiles

InvalidLogged(c) == Logged(c, Error(InvalidMsg, code[c].text))

\* C7 as stated: when loading fails the fragment text is logged at error
\* severity, solve is never invoked, and the caller receives the original
\* load exception.
C7_LoadErrorAlwaysReachesCaller ==
    \A c \in Calls :
        LoadFailed(c) =>
            /\ InvalidLogged(c)
            /\ invokes[c] = 0
            /\ Done(c) => delivered[c] = <<Raised(code[c].exc)>>

\* The record of the load failure precedes every record of arun's handler
\* for the exception.
InvalidLoggedFirst(c) ==
    \A i, j \in 1..Len(log[c]) :
        (log[c][i].msg = InvalidMsg /\ log[c][j].msg = "Error executing code") => i < j

\* C7 amended: when loading fails the fragment text is logged at error
\* severity before the error propagates, solve is never invoked, the
\* worker's outcome is the original load exception, and the caller receives
\* that exception unless wait_for had expired, in which case it receives
\* the timeout signal.
C7_LoadErrorLoggedAndPropagated ==
    \A c \in Calls :
        LoadFailed(c) =>
            /\ InvalidLogged(c) /\ InvalidLoggedFirst(c)
            /\ invokes[c] = 0
            /\ worker[c] = "done" /\ future[c] = Raised(code[c].exc)
            /\ Done(c) =>
                  \/ delivered[c] = <<Raised(code[c].exc)>>
                  \/ /\ pending[c] = Expired
                     /\ delivered[c] = <<Raised(TimeoutException)>>
                     /\ returnedAt[c] >= Deadline(c)
            /\ (Done(c) /\ pending[c] # Expired) => delivered[c] = <<Raised(code[c].exc)>>

C7_Witness ==
    \E c \in Calls : /\ Done(c) /\ code[c] = FragSyntax /\ LoadFailed(c)
                     /\ InvalidLogged(c)
                     /\ delivered[c] = <<Raised("SyntaxError")>>

\* C8: a call with timeout <= 0 has submitted its fragment to a worker
\* exactly once by the time it holds or reports the expiry.
C8_SubmittedOnceBeforeExpiry ==
    \A c \in Calls :
        (Started(c) /\ timeout[c] <= 0) =>
            /\ submitted[c] = 1
            /\ worker[c] # "none"
            /\ executor[c] # 0

C8_Witness ==
    \E c \in Calls : /\ Done(c) /\ timeout[c] <= 0 /\ submitted[c] = 1
                     /\ delivered[c] = <<Raised(TimeoutException)>>

\* C9: concurrent calls share no worker state: distinct calls have distinct
\* executors and distinct namespaces, and every binding in a call's
\* namespace was made by that call's own fragment.
C9_NoSharedWorkerState ==
    /\ \A c, d \in Calls :
          (c # d /\ Started(c) /\ Started(d)) => executor[c] # executor[d]
    /\ \A c, d \in Calls :
          (c # d /\ ns[c] # 0 /\ ns[d] # 0) => ns[c] # ns[d]
    /\ \A c \in Calls :
          ns[c] # 0 => \A b \in heap[ns[c]] : b.by = c

\* C9 witness: two calls are executing their fragments at the same time,
\* each with bindings in its namespace.
C9_Witness ==
    \E c, d \in Calls :
        /\ c # d
        /\ worker[c] = "invoking" /\ worker[d] = "invoking"
        /\ heap[ns[c]] # {} /\ heap[ns[d]] # {}

\* C10: on every outcome arun logs exactly one start message, before the
\* worker is dispatched, and exactly one elapsed-time message, before
\* control returns, whose duration is the time from t0 to the return.
C10_StartAndElapsedLoggedOnce ==
    \A c \in Calls :
        /\ submitted[c] > 0 => Count(c, StartMsg) = 1
        /\ Count(c, StartMsg) <= 1
        /\ ~Done(c) => Count(c, RuntimeMsg) = 0
        /\ Done(c) => /\ Count(c, RuntimeMsg) = 1
                      /\ Logged(c, Info(RuntimeMsg, returnedAt[c] - t0[c]))
                      /\ \A i, j \in 1..Len(log[c]) :
                            (log[c][i].msg = StartMsg /\ log[c][j].msg = RuntimeMsg)
                                => i < j

\* C10 witness: one call has returned a value, another has timed out after
\* time passed, and each logged its start and its elapsed time.
C10_Witness ==
    \E c, d \in Calls :
        /\ Done(c) /\ delivered[c][1].kind = "value"
        /\ Done(d) /\ delivered[d] = <<Raised(TimeoutException)>>
        /\ returnedAt[d] - t0[d] > 0
        /\ \A e \in {c, d} : Count(e, StartMsg) = 1 /\ Count(e, RuntimeMsg) = 1

\* C11: no automatic retries: within one call the work is submitted once,
\* the fragment is loaded at most once and solve is invoked at most once,
\* whatever the outcome.
C11_NoRetries ==
    \A c \in Calls : submitted[c] <= 1 /\ loads[c] <= 1 /\ invokes[c] <= 1

\* C11 witness: a call has ended with an evaluation error and another with
\* the timeout signal, each after its fragment was loaded and solve invoked
\* once.
C11_Witness ==
    \E c, d \in Calls :
        /\ Done(c) /\ delivered[c] = <<Raised("ValueError")>>
        /\ Done(d) /\ pending[d] = Expired /\ delivered[d] = <<Raised(TimeoutException)>>
        /\ \A e \in {c, d} : loads[e] = 1 /\ invokes[e] = 1

\* C14: deadline expiry abandons the wait: a call that holds an expiry past
\* its deadline while its worker is still running the fragment has already
\* given the timeout signal to its caller.
C14_ExpiryAbandonsRunningWorker ==
    \A c \in Calls :
        (pending[c] = Expired /\ Busy(c) /\ now > Deadline(c))
            => delivered[c] = <<Raised(TimeoutException)>>

\* Two arun calls on the shared event loop.
SameLoop(c, d) == c # d /\ Started(c) /\ Started(d) /\ LoopOf(c) = LoopOf(d)

\* C15: a call whose worker never finishes does not delay another call on
\* the same event loop: the other call, once its own worker is no longer
\* running, is not left unresolved after its own deadline.
C15_HungCallDoesNotDelayOthers ==
    \A c, d \in Calls :
        (/\ SameLoop(c, d)
         /\ worker[c] = "looping"
         /\ worker[d] \in {"done", "cancelled"}
         /\ now > Deadline(d))
            => Done(d)

\* C16: once the deadline has passed with the worker still running, the
\* outcome is the timeout signal: a worker that completes after the deadline
\* never changes what the caller receives.
C16_LateResultDiscarded ==
    \A c \in Calls :
        (Done(c) /\ finishedAt[c] > Deadline(c))
            => delivered[c] = <<Raised(TimeoutException)>>

\* The lines check_solution compares, and how many of the compared pairs
\* are equal after stripping.
ExpectedLines == Split(Strip(expected), NL)
ActualLines == Split(Strip(actual), NL)
Compared == 1..Min(Len(ExpectedLines), Len(ActualLines))
Equal(i) == Strip(ExpectedLines[i]) = Strip(ActualLines[i])
MatchCount == Cardinality({i \in Compared : Equal(i)})

\* The mismatching pairs among the compared lines from line i on, in order.
RECURSIVE Mismatches(_)
Mismatches(i) ==
    IF i \notin Compared THEN <<>>
    ELSE (IF Equal(i) THEN <<>>
          ELSE << <<Strip(ExpectedLines[i]), Strip(ActualLines[i])>> >>)
         \o Mismatches(i + 1)

\* C12: check_solution returns under 'matches' the number of expected lines
\* equal to the corresponding actual line after stripping, under 'total'
\* the number of expected lines, and under 'offending_cases' the
\* mismatching pairs.
C12_MatchesIsCount ==
    result # None =>
        /\ result.matches = MatchCount
        /\ result.total = Len(ExpectedLines)
        /\ result.offending_cases = Mismatches(1)

\* C13: maybe_remove_backticks returns the code, unchanged, with the opening
\* fence, the closing fence and the whitespace around them removed, whether
\* the text has only the opening fence, only the closing fence or both.
C13_FencesRemoved ==
    stripped # None => stripped = Value(parts.body)

\* C13 witness: a padded text with both fences around code of several lines
\* has been unfenced, the closing fence followed by whitespace.
C13_Witness ==
    /\ stripped # None
    /\ parts.open /\ parts.close
    /\ parts.gap1 = <<NL>> /\ parts.gap2 = <<NL>> /\ parts.pad2 = <<SP>>
    /\ parts.body = <<"a", NL, "a">>
    /\ stripped = Value(<<"a", NL, "a">>)

\* C17: check_solution compares lines pairwise up to the shorter output: an
\* actual output with fewer lines than expected never matches and its
\* missing lines are not offending cases, and actual lines beyond the
\* expected ones are ignored, so that they cannot prevent a full match.
C17_ComparesUpToShorter ==
    result # None =>
        /\ Len(result.offending_cases) <= Min(Len(ExpectedLines), Len(ActualLines))
        /\ result.offending_cases = Mismatches(1)
        /\ Len(ActualLines) < Len(ExpectedLines) => result.matches = PyBool(FALSE)
        /\ Len(ActualLines) >= Len(ExpectedLines) =>
              result.matches = PyBool(\A i \in 1..Len(ExpectedLines) : Equal(i))

\* C17 witness: an actual output of two lines against an expected output of
\* three has been checked, and so has a matching actual output with a line
\* more than expected; a state holds one check, so each is a witness of its
\* own.
C17_Witness ==
    /\ result # None
    /\ \/ /\ Len(ExpectedLines) = 3 /\ Len(ActualLines) = 2
          /\ result.matches = PyBool(FALSE) /\ result.offending_cases = <<>>
       \/ /\ Len(ExpectedLines) = 2 /\ Len(ActualLines) = 3
          /\ result.matches = PyBool(TRUE)

====
